---- MODULE Spec2Model ----
(***************************************************************************)
(* Model of the DeepSeek-V2 Mixture-of-Experts layer                       *)
(* (max/pipelines/architectures/deepseekV2/layers/mix_of_experts.py).      *)
(*                                                                         *)
(* The state is one MoE object (its configuration fields, its three lists  *)
(* of routed-expert weights, the attributes registered with setattr and    *)
(* its three shared-expert linear layers) together with a record of the    *)
(* forward calls made on it.  Tensors are nested sequences of integers     *)
(* tagged with a dtype; a cast changes the tag, the arithmetic is exact.    *)
(***************************************************************************)
EXTENDS Integers, Sequences, FiniteSets, TLC

VARIABLES layer, first, cur, pc, lib

vars == <<layer, first, cur, pc, lib>>

(***************************************************************************)
(* Bounds of the model.                                                    *)
(***************************************************************************)
MaxExperts == 2      \* experts_per_rank ranges over 0..MaxExperts
MaxInter == 1        \* moe_intermediate_size ranges over 0..MaxInter
MaxHidden == 2       \* max_position_embeddings ranges over 0..MaxHidden
MaxShared == 1       \* n_shared_experts ranges over 0..MaxShared
MaxTopK == 2         \* num_experts_per_tok and the gate's k range up to MaxTopK
MaxSlots == 2        \* tokens * k of one gate output is at most MaxSlots
NumInputs == 2       \* number of distinct input tensors per shape
MaxWeight == 2       \* routing weights range over 0..MaxWeight

DTypes == {"bfloat16", "float32"}

Projs == {"gate_proj", "up_proj", "down_proj"}

NoLayer == [kind |-> "none"]
NoCall == [kind |-> "none"]

(***************************************************************************)
(* Behaviour of the tensor library the layer is built on, fixed per build: *)
(* what a binary op does with operands of two dtypes, and what gather does *)
(* with an index outside the gathered axis (the layer checks neither).     *)
(***************************************************************************)
Libs == [mixed : {"promote", "raise"}, oob : {"raise", "wrap", "clamp"}]

(***************************************************************************)
(* Helpers on sequences and matrices.                                      *)
(***************************************************************************)
RECURSIVE SeqSum(_)
SeqSum(s) == IF s = <<>> THEN 0 ELSE s[1] + SeqSum(Tail(s))

\* (n, m) @ (m, p) -> (n, p); p is given because an empty operand has no columns
MatMul(A, B, p) ==
    [r \in 1..Len(A) |->
        [c \in 1..p |-> SeqSum([i \in 1..Len(B) |-> A[r][i] * B[i][c]])]]

Transpose(A, cols) == [c \in 1..cols |-> [r \in 1..Len(A) |-> A[r][c]]]

(***************************************************************************)
(* Weights.  A Weight is a named placeholder; the values it stands for are *)
(* the ones the state dict holds under its name.                           *)
(***************************************************************************)
ProjSeed(proj) ==
    CASE proj = "gate_proj" -> 1
      [] proj = "up_proj" -> 2
      [] proj = "down_proj" -> 4

ExpertAttrName(i, proj) == "experts." \o ToString(i) \o "." \o proj

ExpertWeightName(i, proj) == ExpertAttrName(i, proj) \o ".weight"

\* the state dict: one integer seed per tensor name
StateDictSeed(name) ==
    IF \E i \in 0..MaxExperts, p \in Projs : ExpertWeightName(i, p) = name
    THEN LET ip == CHOOSE ip \in (0..MaxExperts) \X Projs :
                       ExpertWeightName(ip[1], ip[2]) = name
         IN  3 * ip[1] + ProjSeed(ip[2])
    ELSE CASE name = "shared_expert_gate_proj.weight" -> 2
           [] name = "shared_expert_up_proj.weight" -> 3
           [] name = "shared_expert_down_proj.weight" -> 1
           [] OTHER -> 0

StateDictTensor(name, shape) ==
    LET s == StateDictSeed(name)
    IN  [r \in 1..shape[1] |-> [c \in 1..shape[2] |-> ((s + r + 2 * c) % 4) - 1]]

Weight(name, shape, dtype) ==
    [name |-> name, shape |-> shape, dtype |-> dtype,
     data |-> StateDictTensor(name, shape)]

LinearV2(attr, in_dim, out_dim, dtype) ==
    [in_dim |-> in_dim, out_dim |-> out_dim,
     weight |-> Weight(attr \o ".weight", <<out_dim, in_dim>>, dtype)]

(***************************************************************************)
(* MoE.__init__                                                            *)
(***************************************************************************)
Configs ==
    [num_experts_per_tok : 0..MaxTopK,
     ep_size : {1},
     experts_per_rank : 0..MaxExperts,
     moe_intermediate_size : 0..MaxInter,
     max_position_embeddings : 0..MaxHidden,
     n_shared_experts : 0..MaxShared,
     dtype : DTypes]

\* variant: the gate and up weights appended to each other's list
ExpertLoopBody_swapped(self, i, dtype) ==
    LET d == Weight(ExpertWeightName(i, "down_proj"),
                    <<self.max_position_embeddings, self.moe_intermediate_size>>, dtype)
        g == Weight(ExpertWeightName(i, "gate_proj"),
                    <<self.moe_intermediate_size, self.max_position_embeddings>>, dtype)
        u == Weight(ExpertWeightName(i, "up_proj"),
                    <<self.moe_intermediate_size, self.max_position_embeddings>>, dtype)
    IN  [self EXCEPT
            !.down_proj = Append(@, d),
            !.gate_proj = Append(@, u),
            !.up_proj = Append(@, g),
            !.attrs = @ \cup {<<ExpertAttrName(i, "down_proj"), d.name>>,
                              <<ExpertAttrName(i, "gate_proj"), g.name>>,
                              <<ExpertAttrName(i, "up_proj"), u.name>>}]

\* one iteration of "for i in range(self.experts_per_rank)"
ExpertLoopBody(self, i, dtype) ==
    LET d == Weight(ExpertWeightName(i, "down_proj"),
                    <<self.max_position_embeddings, self.moe_intermediate_size>>, dtype)
        g == Weight(ExpertWeightName(i, "gate_proj"),
                    <<self.moe_intermediate_size, self.max_position_embeddings>>, dtype)
        u == Weight(ExpertWeightName(i, "up_proj"),
                    <<self.moe_intermediate_size, self.max_position_embeddings>>, dtype)
    IN  [self EXCEPT
            !.down_proj = Append(@, d),
            !.gate_proj = Append(@, g),
            !.up_proj = Append(@, u),
            !.attrs = @ \cup {<<ExpertAttrName(i, "down_proj"), d.name>>,
                              <<ExpertAttrName(i, "gate_proj"), g.name>>,
                              <<ExpertAttrName(i, "up_proj"), u.name>>}]

RECURSIVE ExpertLoop(_, _, _)
ExpertLoop(self, i, dtype) ==
    IF i >= self.experts_per_rank THEN self
    ELSE ExpertLoop(ExpertLoopBody(self, i, dtype), i + 1, dtype)

MoEInit(cfg) ==
    LET self0 ==
            [kind |-> "MoE",
             num_experts_per_tok |-> cfg.num_experts_per_tok,
             ep_size |-> cfg.ep_size,
             experts_per_rank |-> cfg.experts_per_rank,
             moe_intermediate_size |-> cfg.moe_intermediate_size,
             max_position_embeddings |-> cfg.max_position_embeddings,
             n_shared_experts |-> cfg.n_shared_experts,
             gate_proj |-> <<>>, down_proj |-> <<>>, up_proj |-> <<>>,
             attrs |-> {}]
        self1 == ExpertLoop(self0, 0, cfg.dtype)
    IN  [kind |-> "MoE",
         num_experts_per_tok |-> self1.num_experts_per_tok,
         ep_size |-> self1.ep_size,
         experts_per_rank |-> self1.experts_per_rank,
         moe_intermediate_size |-> self1.moe_intermediate_size,
         max_position_embeddings |-> self1.max_position_embeddings,
         n_shared_experts |-> self1.n_shared_experts,
         gate_proj |-> self1.gate_proj,
         down_proj |-> self1.down_proj,
         up_proj |-> self1.up_proj,
         attrs |-> self1.attrs,
         shared_expert_up_proj |->
             LinearV2("shared_expert_up_proj", self1.max_position_embeddings,
                      self1.moe_intermediate_size * self1.n_shared_experts, cfg.dtype),
         shared_expert_down_proj |->
             LinearV2("shared_expert_down_proj",
                      self1.moe_intermediate_size * self1.n_shared_experts,
                      self1.max_position_embeddings, cfg.dtype),
         shared_expert_gate_proj |->
             LinearV2("shared_expert_gate_proj", self1.max_position_embeddings,
                      self1.moe_intermediate_size * self1.n_shared_experts, cfg.dtype)]

(***************************************************************************)
(* Tensor operations used by MoE.__call__.                                 *)
(***************************************************************************)
Promote(a, b) == IF a = "float32" \/ b = "float32" THEN "float32" ELSE "bfloat16"

\* dtype of a binary op (matmul, mul, add) on operands of dtypes a and b
BinDtype(a, b, l) ==
    IF a = "error" \/ b = "error" THEN "error"
    ELSE IF a = b THEN a
    ELSE IF l.mixed = "promote" THEN Promote(a, b)
    ELSE "error"

\* sigmoid in units of 1/4, so Silu is x * sigmoid(x) in units of 1/4
SigQ(v) ==
    CASE v <= -2 -> 0
      [] v = -1 -> 1
      [] v = 0 -> 2
      [] v = 1 -> 3
      [] OTHER -> 4

Silu(v) == v * SigQ(v)

\* ops.stack(list, axis=0): (n, h, w) in list order
Stack(ws) == [i \in 1..Len(ws) |-> ws[i].data]

InRange(i, n) == 0 <= i /\ i < n

\* variant: positions counted from one instead of zero
GatherIndex_offByOne(i, n, l) ==
    IF InRange(i, n) THEN (i + 1) % n
    ELSE IF l.oob = "wrap" THEN i % n
    ELSE IF i < 0 THEN 0 ELSE n - 1

\* the position gather reads for index i on an axis of size n
GatherIndex(i, n, l) ==
    IF InRange(i, n) THEN i
    ELSE IF l.oob = "wrap" THEN i % n
    ELSE IF i < 0 THEN 0 ELSE n - 1

\* ops.gather(bank, topk_idx, axis=0): (seq, k, h, w)
Gather(bank, topk_idx, l) ==
    [t \in 1..Len(topk_idx) |->
        [j \in 1..Len(topk_idx[t]) |->
            bank[GatherIndex(topk_idx[t][j], Len(bank), l) + 1]]]

\* LinearV2.__call__ without bias: x @ weight.T on every batch element
Linear(lin, x) ==
    [b \in 1..Len(x) |->
        MatMul(x[b], Transpose(lin.weight.data, lin.in_dim), lin.out_dim)]

ErrorResult(why) ==
    [status |-> "error", error |-> why, dtype |-> "none",
     out |-> <<>>, sparse |-> <<>>, shared |-> <<>>]

(***************************************************************************)
(* MoE.__call__ for input hidden_states when the gate returns gate_out, on *)
(* a library build l.                                                      *)
(***************************************************************************)
\* (seq, w) -> (seq, 1, w, 1): hidden_states[0] unsqueezed on axes 1 and -1
UnsqueezeHidden(hidden_states) ==
    [t \in 1..Len(hidden_states.data[1]) |->
        <<[h \in 1..Len(hidden_states.data[1][t]) |-> <<hidden_states.data[1][t][h]>>]>>]

\* variant: the expert outputs summed without their routing weights
WeightedSum_unweighted(topk_weight, down_projs, hid) ==
    LET tw == [t \in 1..Len(topk_weight) |-> <<[j \in 1..Len(topk_weight[t]) |-> 1]>>]
        summed_down_projs ==
            [t \in 1..Len(tw) |-> MatMul(tw[t], down_projs[t], hid)]
    IN  [t \in 1..Len(tw) |-> summed_down_projs[t][1]]

\* (seq, 1, k) @ (seq, k, w) -> (seq, 1, w), squeezed on axis 1
WeightedSum(topk_weight, down_projs, hid) ==
    LET tw == [t \in 1..Len(topk_weight) |-> <<topk_weight[t]>>]
        summed_down_projs ==
            [t \in 1..Len(tw) |-> MatMul(tw[t], down_projs[t], hid)]
    IN  [t \in 1..Len(tw) |-> summed_down_projs[t][1]]

\* final_out: the sparse-routing contribution, (seq, w)
SparseOut(self, hidden_states, gate_out, l) ==
    LET topk_idx == gate_out.idx
        seq == Len(topk_idx)
        k == Len(topk_idx[1])
        hid == self.max_position_embeddings
        inter == self.moe_intermediate_size
        down_proj == Stack(self.down_proj)
        gate_proj == Stack(self.gate_proj)
        up_proj == Stack(self.up_proj)
        topk_down_proj == Gather(down_proj, topk_idx, l)
        topk_gate_proj == Gather(gate_proj, topk_idx, l)
        topk_up_proj == Gather(up_proj, topk_idx, l)
        hs == UnsqueezeHidden(hidden_states)
        \* (seq, k, h, w) @ (seq, 1, w, 1) -> (seq, k, h, 1)
        up_projs == [t \in 1..seq |-> [j \in 1..k |->
                        MatMul(topk_up_proj[t][j], hs[t][1], 1)]]
        gate_mm == [t \in 1..seq |-> [j \in 1..k |->
                        MatMul(topk_gate_proj[t][j], hs[t][1], 1)]]
        gate_projs == [t \in 1..seq |-> [j \in 1..k |->
                        [r \in 1..inter |-> <<Silu(gate_mm[t][j][r][1])>>]]]
        up_gate_projs == [t \in 1..seq |-> [j \in 1..k |->
                        [r \in 1..inter |->
                            <<up_projs[t][j][r][1] * gate_projs[t][j][r][1]>>]]]
        \* (seq, k, w, h) @ (seq, k, h, 1), squeezed on axis -1 -> (seq, k, w)
        down_projs == [t \in 1..seq |-> [j \in 1..k |->
                        [h \in 1..hid |->
                            MatMul(topk_down_proj[t][j], up_gate_projs[t][j], 1)[h][1]]]]
    IN  WeightedSum(gate_out.weight.data, down_projs, hid)

\* dtype of final_out: the casts of lines 176-182
SparseDtype(self, hidden_states, gate_out, l) ==
    LET wdt == self.down_proj[1].dtype
        up_dt == BinDtype(self.up_proj[1].dtype, hidden_states.dtype, l)
        gate_dt == BinDtype(self.gate_proj[1].dtype, hidden_states.dtype, l)
        up_gate_dt == BinDtype(up_dt, gate_dt, l)
        down_mm_dt == BinDtype(wdt, up_gate_dt, l)
        down_dt == IF down_mm_dt = "error" THEN "error" ELSE gate_out.weight.dtype
        summed_mm_dt == BinDtype(gate_out.weight.dtype, down_dt, l)
    IN  IF summed_mm_dt = "error" THEN "error" ELSE hidden_states.dtype

\* shared_expert_out: (1, seq, w)
SharedOut(self, identity) ==
    LET sh_gate == Linear(self.shared_expert_gate_proj, identity.data)
        sh_up == Linear(self.shared_expert_up_proj, identity.data)
        sh_act == [b \in 1..Len(sh_gate) |-> [t \in 1..Len(sh_gate[b]) |->
                      [c \in 1..Len(sh_gate[b][t]) |->
                          Silu(sh_gate[b][t][c]) * sh_up[b][t][c]]]]
    IN  Linear(self.shared_expert_down_proj, sh_act)

SharedDtype(self, identity, l) ==
    LET sh_gate_dt == BinDtype(identity.dtype, self.shared_expert_gate_proj.weight.dtype, l)
        sh_up_dt == BinDtype(identity.dtype, self.shared_expert_up_proj.weight.dtype, l)
        sh_act_dt == BinDtype(sh_gate_dt, sh_up_dt, l)
    IN  BinDtype(sh_act_dt, self.shared_expert_down_proj.weight.dtype, l)

\* variant: summed_down_projs left unsqueezed, (seq, 1, w) against (1, seq, w)
Combine_unsqueezed(final_out, shared_expert_out) ==
    [a \in 1..Len(final_out) |->
        [t \in 1..Len(shared_expert_out[1]) |->
            [h \in 1..Len(final_out[a]) |->
                final_out[a][h] + shared_expert_out[1][t][h]]]]

\* final_out + shared_expert_out: (seq, w) broadcast against (1, seq, w)
Combine(final_out, shared_expert_out) ==
    [b \in 1..Len(shared_expert_out) |->
        [t \in 1..Len(final_out) |->
            [h \in 1..Len(final_out[t]) |->
                final_out[t][h] + shared_expert_out[b][t][h]]]]

\* variant: the shared expert applied to the routed output instead of identity
Forward_sharedOnRouted(self, hidden_states, gate_out, l) ==
    LET identity == hidden_states
        n == Len(self.down_proj)
        topk_idx == gate_out.idx
    IN
    IF n = 0 THEN ErrorResult("stack")
    ELSE IF l.oob = "raise"
            /\ \E t \in 1..Len(topk_idx), j \in 1..Len(topk_idx[1]) :
                   ~InRange(topk_idx[t][j], n)
    THEN ErrorResult("gather")
    ELSE
    LET out_dt == BinDtype(SparseDtype(self, hidden_states, gate_out, l),
                           SharedDtype(self, identity, l), l)
        final_out == SparseOut(self, hidden_states, gate_out, l)
        shared_expert_out == SharedOut(self, [identity EXCEPT !.data = <<final_out>>])
    IN
    IF out_dt = "error" THEN ErrorResult("dtype")
    ELSE [status |-> "ok", error |-> "none", dtype |-> out_dt,
          out |-> Combine(final_out, shared_expert_out),
          sparse |-> final_out,
          shared |-> shared_expert_out]

Forward(self, hidden_states, gate_out, l) ==
    LET identity == hidden_states
        n == Len(self.down_proj)
        topk_idx == gate_out.idx
    IN
    IF n = 0 THEN ErrorResult("stack")
    ELSE IF l.oob = "raise"
            /\ \E t \in 1..Len(topk_idx), j \in 1..Len(topk_idx[1]) :
                   ~InRange(topk_idx[t][j], n)
    THEN ErrorResult("gather")
    ELSE
    LET out_dt == BinDtype(SparseDtype(self, hidden_states, gate_out, l),
                           SharedDtype(self, identity, l), l)
        final_out == SparseOut(self, hidden_states, gate_out, l)
        shared_expert_out == SharedOut(self, identity)
    IN
    IF out_dt = "error" THEN ErrorResult("dtype")
    ELSE [status |-> "ok", error |-> "none", dtype |-> out_dt,
          out |-> Combine(final_out, shared_expert_out),
          sparse |-> final_out,
          shared |-> shared_expert_out]

\* variant: the call rebinds the gate and up lists of self to each other
SelfAfterCall_rebindsBanks(self, hidden_states, gate_out) ==
    [self EXCEPT !.gate_proj = self.up_proj, !.up_proj = self.gate_proj]

\* the MoE object after a forward call: __call__ assigns to no attribute of self
SelfAfterCall(self, hidden_states, gate_out) == self

(***************************************************************************)
(* Inputs of a forward call.                                               *)
(***************************************************************************)
InputValue(p, t, h) == ((p + 2 * t + h) % 4) - 1

\* input tensors of shape [1, seq, hid]
Inputs(hid) ==
    {[dtype |-> d,
      data |-> <<[t \in 1..seq |-> [h \in 1..hid |-> InputValue(p, t, h)]]>>] :
        d \in DTypes, seq \in 1..MaxSlots, p \in 1..NumInputs}

SeqLen(x) == Len(x.data[1])

\* gate outputs for seq tokens: per token k indices drawn from idxs and k
\* weights drawn from ws, the weights of a dtype in dts
GateOutputsOver(seq, idxs, ws, dts) ==
    UNION {[idx : [1..seq -> [1..k -> idxs]],
            weight : [dtype : dts, data : [1..seq -> [1..k -> ws]]]] :
              k \in {kk \in 1..MaxTopK : seq * kk <= MaxSlots}}

\* what the gate may return on a layer of n experts, out-of-range indices included
GateOutputs(seq, n) == GateOutputsOver(seq, -1..n, 0..MaxWeight, DTypes)

\* the gate outputs whose indices all lie in [0, n)
ValidGateOutputs(seq, n) == GateOutputsOver(seq, 0..(n - 1), 0..MaxWeight, DTypes)

\* the gate outputs with in-range indices and unit float32 weights
UnitGateOutputs(seq, n) == GateOutputsOver(seq, 0..(n - 1), {1}, {"float32"})

CallRecord(self, x, g, l) ==
    [kind |-> "call", x |-> x, gate |-> g, res |-> Forward(self, x, g, l)]

(***************************************************************************)
(* Actions.                                                                *)
(***************************************************************************)
Construct(cfg) ==
    /\ layer = NoLayer
    /\ layer' = MoEInit(cfg)
    /\ first' = NoCall
    /\ cur' = NoCall
    /\ pc' = "new"
    /\ UNCHANGED lib

\* the layer is dropped
Destroy ==
    /\ layer # NoLayer
    /\ layer' = NoLayer
    /\ first' = NoCall
    /\ cur' = NoCall
    /\ pc' = "new"
    /\ UNCHANGED lib

\* callers build graphs only from layers whose dimensions are all positive
PositiveDims(self) ==
    /\ self.num_experts_per_tok > 0
    /\ self.experts_per_rank > 0
    /\ self.moe_intermediate_size > 0
    /\ self.max_position_embeddings > 0
    /\ self.n_shared_experts > 0

Callable == layer # NoLayer /\ PositiveDims(layer)

\* a forward call whose result the caller holds in cur
Call(x, g) ==
    /\ layer # NoLayer
    /\ cur = NoCall
    /\ cur' = CallRecord(layer, x, g, lib)
    /\ layer' = SelfAfterCall(layer, x, g)
    /\ UNCHANGED <<first, pc, lib>>

\* the caller drops the result it holds
Discard ==
    /\ cur # NoCall
    /\ first = NoCall
    /\ cur' = NoCall
    /\ UNCHANGED <<layer, first, pc, lib>>

Init ==
    /\ layer = NoLayer
    /\ first = NoCall
    /\ cur = NoCall
    /\ pc = "new"
    /\ lib \in Libs

Next ==
    \/ \E cfg \in Configs : Construct(cfg)
    \/ Destroy
    \/ /\ Callable
       /\ cur = NoCall
       /\ \E x \in Inputs(layer.max_position_embeddings) :
              \E g \in GateOutputs(SeqLen(x), layer.experts_per_rank) : Call(x, g)
    \/ Discard

Spec == Init /\ [][Next]_vars

(***************************************************************************)
(* A caller that makes three forward calls on one layer: a first one,      *)
(* whose result it keeps in first, one whose result it drops, and one more *)
(* on the first call's input with a fresh gate output, kept in cur.        *)
(***************************************************************************)
PairConfigs ==
    {cfg \in Configs :
        /\ cfg.experts_per_rank > 0
        /\ cfg.num_experts_per_tok > 0
        /\ cfg.moe_intermediate_size = MaxInter
        /\ cfg.max_position_embeddings = MaxHidden
        /\ cfg.n_shared_experts = MaxShared}

CallFirst(x, g) ==
    /\ pc = "new"
    /\ cur' = CallRecord(layer, x, g, lib)
    /\ first' = cur'
    /\ layer' = SelfAfterCall(layer, x, g)
    /\ pc' = "first"
    /\ UNCHANGED lib

CallBetween(x, g) ==
    /\ pc = "first"
    /\ layer' = SelfAfterCall(layer, x, g)
    /\ pc' = "between"
    /\ UNCHANGED <<first, cur, lib>>

CallAgain(g) ==
    /\ pc = "between"
    /\ cur' = CallRecord(layer, first.x, g, lib)
    /\ layer' = SelfAfterCall(layer, first.x, g)
    /\ pc' = "again"
    /\ UNCHANGED <<first, lib>>

InitPair ==
    /\ layer = NoLayer
    /\ first = NoCall
    /\ cur = NoCall
    /\ pc = "new"
    /\ lib \in {l \in Libs : l.oob = "raise"}

NextPair ==
    \/ \E cfg \in PairConfigs : Construct(cfg)
    \/ Destroy
    \/ /\ Callable
       /\ pc = "new"
       /\ \E x \in Inputs(layer.max_position_embeddings) :
              \E g \in ValidGateOutputs(SeqLen(x), layer.experts_per_rank) :
                  CallFirst(x, g)
    \/ /\ Callable
       /\ pc = "first"
       /\ \E x \in Inputs(layer.max_position_embeddings) :
              \E g \in UnitGateOutputs(SeqLen(x), layer.experts_per_rank) :
                  CallBetween(x, g)
    \/ /\ Callable
       /\ pc = "between"
       /\ \E g \in ValidGateOutputs(SeqLen(first.x), layer.experts_per_rank) :
              CallAgain(g)

SpecPair == InitPair /\ [][NextPair]_vars

(***************************************************************************)
(* Reference semantics used by the properties: expert i's gated            *)
(* feed-forward computed from the tensors the state dict holds under the   *)
(* names registered for expert i.                                          *)
(***************************************************************************)
RegisteredName(self, i, proj) ==
    CHOOSE nm \in {e[2] : e \in self.attrs} : <<ExpertAttrName(i, proj), nm>> \in self.attrs

RegisteredTensor(self, i, proj) ==
    StateDictTensor(RegisteredName(self, i, proj),
        IF proj = "down_proj"
        THEN <<self.max_position_embeddings, self.moe_intermediate_size>>
        ELSE <<self.moe_intermediate_size, self.max_position_embeddings>>)

Dot(a, b) == SeqSum([c \in 1..Len(a) |-> a[c] * b[c]])

\* down . (silu(gate . xv) * (up . xv))
GatedFFN(down, gate, up, xv) ==
    [h \in 1..Len(down) |->
        SeqSum([r \in 1..Len(gate) |->
            down[h][r] * Silu(Dot(gate[r], xv)) * Dot(up[r], xv)])]

RefExpert(self, i, xv) ==
    GatedFFN(RegisteredTensor(self, i, "down_proj"),
             RegisteredTensor(self, i, "gate_proj"),
             RegisteredTensor(self, i, "up_proj"), xv)

RefShared(self, xv) ==
    GatedFFN(self.shared_expert_down_proj.weight.data,
             self.shared_expert_gate_proj.weight.data,
             self.shared_expert_up_proj.weight.data, xv)

\* sum over j of topk_weight[t][j] * E_{topk_idx[t][j]}(x_t), component h
RefSparse(self, call, t, h) ==
    SeqSum([j \in 1..Len(call.gate.idx[t]) |->
        call.gate.weight.data[t][j]
            * RefExpert(self, call.gate.idx[t][j], call.x.data[1][t])[h]])

Called == cur # NoCall

Returned == Called /\ cur.res.status = "ok"

TopK(call) == Len(call.gate.idx[1])

IdxInRange(call, self) ==
    \A t \in 1..Len(call.gate.idx), j \in 1..TopK(call) :
        InRange(call.gate.idx[t][j], self.experts_per_rank)

LayerDtype(self) == self.shared_expert_up_proj.weight.dtype

Shape2(m) == <<Len(m), Len(m[1])>>

Shape3(x) == <<Len(x), Len(x[1]), Len(x[1][1])>>

(***************************************************************************)
(* C1: for an input [1, seq, hidden] and a gate output whose indices all   *)
(* lie in [0, experts_per_rank), the sparse contribution of every token t  *)
(* is the sum over j of topk_weight[t][j] * E_{topk_idx[t][j]}(x_t), with  *)
(* E_i built from expert i's registered weights, and the returned tensor   *)
(* is that plus shared_expert(x_t); such a call returns whenever the input *)
(* has the layer's dtype.                                                  *)
(***************************************************************************)
C1_WeightedExpertSum ==
    (Called /\ IdxInRange(cur, layer)) =>
        /\ cur.x.dtype = LayerDtype(layer) => cur.res.status = "ok"
        /\ cur.res.status = "ok" =>
              \A t \in 1..SeqLen(cur.x), h \in 1..layer.max_position_embeddings :
                  /\ cur.res.sparse[t][h] = RefSparse(layer, cur, t, h)
                  /\ cur.res.out[1][t][h] =
                        RefSparse(layer, cur, t, h)
                            + RefShared(layer, cur.x.data[1][t])[h]

\* two different experts, both with non-zero weight, whose outputs differ
C1_Witness ==
    /\ Returned
    /\ IdxInRange(cur, layer)
    /\ TopK(cur) = 2
    /\ cur.gate.idx[1] = <<0, 1>>
    /\ cur.gate.weight.data[1] = <<2, 1>>
    /\ RefExpert(layer, 0, cur.x.data[1][1]) # RefExpert(layer, 1, cur.x.data[1][1])
    /\ \E h \in 1..layer.max_position_embeddings :
          /\ cur.res.sparse[1][h] # 0
          /\ cur.res.sparse[1][h] # RefExpert(layer, 0, cur.x.data[1][1])[h]
          /\ cur.res.sparse[1][h] # RefExpert(layer, 1, cur.x.data[1][1])[h]

(***************************************************************************)
(* C2: the returned tensor has the input's shape [1, seq, hidden]; the     *)
(* sparse contribution is [seq, hidden], the shared one [1, seq, hidden].  *)
(***************************************************************************)
C2_OutputShape ==
    Returned =>
        /\ Shape3(cur.res.out) = Shape3(cur.x.data)
        /\ Shape3(cur.res.out) = <<1, SeqLen(cur.x), layer.max_position_embeddings>>
        /\ Shape2(cur.res.sparse) = <<SeqLen(cur.x), layer.max_position_embeddings>>
        /\ Shape3(cur.res.shared) = <<1, SeqLen(cur.x), layer.max_position_embeddings>>

C2_Witness ==
    /\ Returned
    /\ Shape3(cur.x.data) = <<1, 2, 2>>
    /\ Shape3(cur.res.out) = <<1, 2, 2>>

(***************************************************************************)
(* C3 (as claimed): the returned tensor has the input's dtype whatever the *)
(* layer's construction dtype and the gate's weight dtype are.             *)
(***************************************************************************)
C3_OutputDtypeIsInputDtype ==
    Returned => cur.res.dtype = cur.x.dtype

(***************************************************************************)
(* C4 (as claimed): a gate index outside [0, experts_per_rank) makes the   *)
(* call raise; no output is returned.                                      *)
(***************************************************************************)
C4_OutOfRangeIndexRaises ==
    (Called /\ ~IdxInRange(cur, layer)) => cur.res.status = "error"

(***************************************************************************)
(* C5 (as claimed): no layer object with a non-positive dimension exists.  *)
(***************************************************************************)
C5_NoInvalidLayer ==
    layer # NoLayer => PositiveDims(layer)

(***************************************************************************)
(* C6 (as claimed): a gate output whose per-token length differs from the  *)
(* layer's num_experts_per_tok makes the call raise.                       *)
(***************************************************************************)
C6_TopKMismatchRaises ==
    (Called /\ TopK(cur) # layer.num_experts_per_tok) => cur.res.status = "error"

(***************************************************************************)
(* C7: after construction with experts_per_rank = E exactly 3*E routed     *)
(* weights are registered, one named experts.<i>.<proj>.weight for every   *)
(* i in [0, E) and every projection, all names distinct, and position i of *)
(* each list (slice i of the stacked bank) is expert i's weight.           *)
(***************************************************************************)
Decimal(i) ==
    CASE i = 0 -> "0" [] i = 1 -> "1" [] i = 2 -> "2" [] i = 3 -> "3" [] i = 4 -> "4"
      [] i = 5 -> "5" [] i = 6 -> "6" [] i = 7 -> "7" [] i = 8 -> "8" [] i = 9 -> "9"

ExpectedName(i, proj) == "experts." \o Decimal(i) \o "." \o proj \o ".weight"

ListOf(self, proj) ==
    CASE proj = "gate_proj" -> self.gate_proj
      [] proj = "up_proj" -> self.up_proj
      [] proj = "down_proj" -> self.down_proj

C7_ExpertWeightRegistry ==
    layer # NoLayer =>
        LET E == layer.experts_per_rank
            names == {ListOf(layer, p)[i].name : i \in 1..E, p \in Projs}
        IN  /\ \A p \in Projs : Len(ListOf(layer, p)) = E
            /\ Cardinality(layer.attrs) = 3 * E
            /\ Cardinality(names) = 3 * E
            /\ {e[2] : e \in layer.attrs} = names
            /\ \A i \in 0..(E - 1), p \in Projs :
                  /\ ListOf(layer, p)[i + 1].name = ExpectedName(i, p)
                  /\ <<"experts." \o Decimal(i) \o "." \o p, ExpectedName(i, p)>>
                         \in layer.attrs
                  /\ Stack(ListOf(layer, p))[i + 1]
                         = StateDictTensor(ExpectedName(i, p), ListOf(layer, p)[i + 1].shape)

C7_Witness ==
    /\ layer # NoLayer
    /\ layer.experts_per_rank = 2
    /\ layer.up_proj[2].name = "experts.1.up_proj.weight"
    /\ Cardinality(layer.attrs) = 6

(***************************************************************************)
(* Properties of pairs of calls on one layer (specification SpecPair).     *)
(***************************************************************************)
BothReturned ==
    /\ pc = "again"
    /\ first.res.status = "ok"
    /\ cur.res.status = "ok"

\* the routing weights w with every entry of token t multiplied by c
ScaleToken(w, t, c) ==
    [u \in 1..Len(w) |-> IF u = t THEN [j \in 1..Len(w[u]) |-> c * w[u][j]] ELSE w[u]]

(***************************************************************************)
(* C8: two calls on the same layer with the same input return the same     *)
(* shared-expert term whatever the two gate outputs are, and that term is  *)
(* the shared gated feed-forward of the unmodified input.                  *)
(***************************************************************************)
C8_SharedIndependentOfGate ==
    (BothReturned /\ cur.x = first.x) =>
        /\ cur.res.shared = first.res.shared
        /\ \A t \in 1..SeqLen(cur.x) :
              cur.res.shared[1][t] = RefShared(layer, cur.x.data[1][t])

C8_Witness ==
    /\ BothReturned
    /\ cur.x = first.x
    /\ cur.gate.idx # first.gate.idx
    /\ cur.gate.weight # first.gate.weight
    /\ cur.res.sparse # first.res.sparse
    /\ cur.res.shared = first.res.shared
    /\ \E t \in 1..SeqLen(cur.x), h \in 1..layer.max_position_embeddings :
          cur.res.shared[1][t][h] # 0

(***************************************************************************)
(* C9: with the input and topk_idx fixed, multiplying every routing weight *)
(* of one token t by c multiplies the sparse contribution of t by c and    *)
(* leaves the other tokens' sparse contribution and the shared term        *)
(* unchanged.                                                              *)
(***************************************************************************)
C9_WeightLinearity ==
    (BothReturned /\ cur.x = first.x /\ cur.gate.idx = first.gate.idx) =>
        \A t \in 1..SeqLen(cur.x), c \in 0..MaxWeight :
            cur.gate.weight.data = ScaleToken(first.gate.weight.data, t, c) =>
                /\ \A h \in 1..layer.max_position_embeddings :
                      cur.res.sparse[t][h] = c * first.res.sparse[t][h]
                /\ \A u \in 1..SeqLen(cur.x) :
                      u # t => cur.res.sparse[u] = first.res.sparse[u]
                /\ cur.res.shared = first.res.shared

C9_Witness ==
    /\ BothReturned
    /\ SeqLen(cur.x) = 2
    /\ cur.gate.idx = first.gate.idx
    /\ cur.gate.weight.data = ScaleToken(first.gate.weight.data, 1, 2)
    /\ cur.gate.weight.data # first.gate.weight.data
    /\ \E h \in 1..layer.max_position_embeddings :
          /\ first.res.sparse[1][h] # 0
          /\ cur.res.sparse[1][h] = 2 * first.res.sparse[1][h]
    /\ \E h \in 1..layer.max_position_embeddings : first.res.sparse[2][h] # 0
    /\ cur.res.sparse[2] = first.res.sparse[2]

(***************************************************************************)
(* C10: a forward call leaves the layer (weight lists, shared-expert       *)
(* layers, configuration fields) unchanged, and two calls with the same    *)
(* input and the same gate output return the same result whatever call was *)
(* made in between.                                                        *)
(***************************************************************************)
SameCallSameResult ==
    (pc = "again" /\ cur.x = first.x /\ cur.gate = first.gate) => cur.res = first.res

CallLeavesLayer ==
    (layer # NoLayer /\ layer' # NoLayer) => layer' = layer

C10_CallIsPure == [](SameCallSameResult) /\ [][CallLeavesLayer]_vars

C10_Witness ==
    /\ BothReturned
    /\ cur.gate = first.gate
    /\ cur.res = first.res
    /\ \E t \in 1..SeqLen(cur.x), h \in 1..layer.max_position_embeddings :
          cur.res.sparse[t][h] # 0
====
